---- MODULE Spec2Model ----
(***************************************************************************)
(* CustomDockerProfilesSpawner (wrapspawner/customwrap.py): the profile    *)
(* registry, image discovery, the GPU sidecar probe, the form renderer and *)
(* the selection / delegation controller.                                  *)
(*                                                                         *)
(* Python strings that the code builds by concatenation or tests with a    *)
(* regular expression are sequences of tokens: "docker-" + "lab:" +        *)
(* "jupyterhub" is <<"docker-", "lab:", "jupyterhub">> and "" is <<>>.     *)
(* A dict is a function over its keys; a dict object that can be reached   *)
(* through several references lives in `heap` under an object id.          *)
(* A call's outcome is a record [err, val]: err = "ok" and the returned    *)
(* value, or the name of the exception that left the call.                 *)
(***************************************************************************)
EXTENDS Integers, Sequences, FiniteSets, TLC

VARIABLES
    dockerInstalled,   \* whether `import docker` succeeded (lines 26-29)
    shared,            \* whether the instances hold the class's own option dicts
    default_profiles,  \* the configured static profiles (lines 116-135)
    imageTags,         \* the container runtime's tags, flattened (lines 255-256)
    sidecar,           \* how the GPU sidecar answers the GET (line 223)
    groups,            \* per session: the user's groups (line 42)
    heap,              \* object id -> dict, for the dicts reachable by reference
    child_class,       \* per session: the installed backend type
    child_config,      \* per session: object id of the installed option dict
    child_profile,     \* per session (line 66)
    profile_image,     \* per session (line 138)
    delegated,         \* per session: the wrapper built its child
    saved,             \* per session: the state mapping last returned by get_state
    form,              \* what the last options_form or options_from_form returned
    last               \* the last call: [op, sess, result, arg]

vars == <<dockerInstalled, shared, default_profiles, imageTags, sidecar, groups,
          heap, child_class, child_config, child_profile, profile_image,
          delegated, saved, form, last>>

(***************************************************************************)
(* Bounds of the model.                                                    *)
(***************************************************************************)
MaxTags == 1
MaxGroups == 2

Sessions == {"A", "B"}

(***************************************************************************)
(* Python values.                                                          *)
(***************************************************************************)
EmptyDict == [k \in {} |-> <<>>]

Ok(v) == [err |-> "ok", val |-> v]

Raise(e) == [err |-> e, val |-> <<>>]

\* d[k] = v
DictSet(d, k, v) == [x \in DOMAIN d \cup {k} |-> IF x = k THEN v ELSE d[x]]

\* d.update(e)
DictUpdate(d, e) == [x \in DOMAIN d \cup DOMAIN e |-> IF x \in DOMAIN e THEN e[x] ELSE d[x]]

\* d.get(k, default)
DictGet(d, k, default) == IF k \in DOMAIN d THEN d[k] ELSE default

SeqsUpTo(S, n) == UNION {[1..k -> S] : k \in 0..n}

RECURSIVE Flatten(_)
Flatten(seqs) == IF seqs = <<>> THEN <<>> ELSE Head(seqs) \o Flatten(Tail(seqs))

(***************************************************************************)
(* Configuration and environment the runs draw from.                       *)
(***************************************************************************)
TagJH == <<"lab:", "jupyterhub">>

TagOther == <<"jupyterhub", "/singleuser:latest">>

Tags == {TagJH, TagOther}

LocalProcessSpawner == "LocalProcessSpawner"

SystemUserSpawner == "dockerspawner.SystemUserSpawner"

\* The class's own default_value: one profile whose options carry an image.
ProfileSingleuser ==
    [display |-> <<"Run Docker Image">>, key |-> <<"singleuser">>,
     type |-> SystemUserSpawner, options |-> [k \in {"image"} |-> <<"sbrambla">>]]

\* A configured static profile whose key is the one discovery gives TagJH.
ProfileLocal ==
    [display |-> <<"Local Notebook Server">>, key |-> <<"docker-">> \o TagJH,
     type |-> LocalProcessSpawner,
     options |-> [k \in {"start_timeout", "http_timeout"} |->
                    IF k = "start_timeout" THEN 15 ELSE 10]]

\* default_profiles as the class declares it.
ClassDefault == <<ProfileSingleuser>>

LargestConfig == <<ProfileSingleuser, ProfileLocal>>

Configs == {<<>>, ClassDefault, LargestConfig}

SidecarStates == {"up", "refused", "reset"}

\* The sidecar's JSON body when it answers.
SidecarBody ==
    [Volumes |-> << <<"nvidia_driver", ":", "/usr/local/nvidia">> >>,
     VolumeDriver |-> <<"nvidia-docker">>,
     Devices |-> << <<"/dev/nvidia0">> >>]

docker_spawner_args == EmptyDict

first_template == <<"selected">>

group_images ==
    [g \in {"group_a", "group_b"} |->
        IF g = "group_a"
        THEN << [display |-> <<"base image group_a">>, key |-> <<"jupyterhub/singleuser">>] >>
        ELSE << [display |-> <<"base image group_b">>, key |-> <<"jupyterhub/singleuser">>] >>]

default_profile_image ==
    << [display |-> <<"base">>, key |-> <<"jupyterhub/singleuser">>] >>

GroupNames == {"group_a", "group_b", "group_x", ""}

UserName(s) == <<"user-", s>>

\* What a user can submit.
Keys == {<<"singleuser">>, <<"docker-">> \o TagJH, <<"bogus">>}

Images == {<<"img1">>}

\* user_options, and the persisted state mappings: each key present or absent.
Selections ==
    {EmptyDict}
    \cup {[k \in {"profile"} |-> p] : p \in Keys}
    \cup {[k \in {"dockerImage"} |-> i] : i \in Images}
    \cup {[k \in {"profile", "dockerImage"} |-> IF k = "profile" THEN p ELSE i] :
            p \in Keys, i \in Images}

\* Form data: each field absent, or a list of one or two values.
FormData ==
    {EmptyDict}
    \cup {[k \in {"profile"} |-> <<p, <<"bogus">> >>] : p \in Keys}
    \cup {[k \in {"dockerImage"} |-> <<i>>] : i \in Images}
    \cup {[k \in {"profile", "dockerImage"} |-> IF k = "profile" THEN <<p>> ELSE <<i, <<"img2">> >>] :
            p \in Keys, i \in Images}

(***************************************************************************)
(* Object ids.                                                             *)
(***************************************************************************)
\* The dict of static profile j as session s reaches it.
StaticId(s, j) == <<IF shared THEN "class" ELSE s, j>>

\* The dict a session owns alone: the initial child_config, or the options of
\* a discovered profile, built anew by every read of `profiles`.
OwnId(s) == <<s, 0>>

ObjIds == (Sessions \cup {"class"}) \X (0..Len(LargestConfig))

(***************************************************************************)
(* GPU sidecar probe.                                                      *)
(***************************************************************************)
RECURSIVE SplitColon(_)
\* vol.split(":"): the pieces between the ":" tokens.
SplitColon(str) ==
    IF \A n \in 1..Len(str) : str[n] # ":" THEN <<str>>
    ELSE LET n == CHOOSE m \in 1..Len(str) :
                      str[m] = ":" /\ \A q \in 1..(m - 1) : str[q] # ":"
         IN  <<SubSeq(str, 1, n - 1)>> \o SplitColon(SubSeq(str, n + 1, Len(str)))

\* The dict built from the sidecar's body (lines 226-232).
GpuArgs(args) ==
    [k \in {"read_only_volumes", "extra_create_kwargs", "extra_host_config"} |->
        CASE k = "read_only_volumes" ->
                [h \in {SplitColon(args.Volumes[n])[1] : n \in 1..Len(args.Volumes)} |->
                    LET n == CHOOSE m \in 1..Len(args.Volumes) :
                                 SplitColon(args.Volumes[m])[1] = h
                    IN  SplitColon(args.Volumes[n])[2]]
          [] k = "extra_create_kwargs" -> [x \in {"volume_driver"} |-> args.VolumeDriver]
          [] OTHER -> [x \in {"devices"} |-> args.Devices]]

\* _nvidia_args: only urllib.error.URLError is caught. A refused connection
\* reaches the code as URLError; a connection the sidecar accepts and then
\* resets is a ConnectionResetError, raised out of getresponse().
nvidia_args ==
    CASE sidecar = "up" -> Ok(GpuArgs(SidecarBody))
      [] sidecar = "refused" -> Ok(EmptyDict)
      [] OTHER -> Raise("ConnectionResetError")

(***************************************************************************)
(* Image discovery and the profile registry.                               *)
(***************************************************************************)
\* jupyterhub_docker_tag_re, "^.*jupyterhub$": the tag ends in jupyterhub.
TagMatches(tag) == tag # <<>> /\ tag[Len(tag)] = "jupyterhub"

RECURSIVE FilterTags(_)
FilterTags(tags) ==
    IF tags = <<>> THEN <<>>
    ELSE IF TagMatches(Head(tags)) THEN <<Head(tags)>> \o FilterTags(Tail(tags))
    ELSE FilterTags(Tail(tags))

\* _jupyterhub_docker_tags: NameError (no docker module) becomes Exception.
jupyterhub_docker_tags ==
    IF dockerInstalled THEN Ok(FilterTags(imageTags)) ELSE Raise("Exception")

\* _docker_profile: a profile whose option dict is a new object (ref "new").
docker_profile(s, nv, image) ==
    LET spawner_args ==
            DictUpdate(DictUpdate([k \in {"container_image", "network_name"} |->
                                      IF k = "container_image" THEN image ELSE UserName(s)],
                                  docker_spawner_args),
                       nv)
        nvidia_enabled == IF Cardinality(DOMAIN nv) > 0 THEN "w/GPU" ELSE "no GPU"
    IN  [display |-> <<"Docker: (", nvidia_enabled, "): ">> \o image,
         key |-> <<"docker-">> \o image,
         type |-> SystemUserSpawner,
         ref |-> <<"new", 0>>,
         options |-> spawner_args]

\* _docker_profiles: the tags are listed first, then the sidecar is probed
\* once for every tag kept.
docker_profiles(s) ==
    LET tags == jupyterhub_docker_tags
    IN  IF tags.err # "ok" THEN tags
        ELSE IF tags.val = <<>> THEN Ok(<<>>)
        ELSE IF nvidia_args.err # "ok" THEN nvidia_args
        ELSE Ok([n \in 1..Len(tags.val) |-> docker_profile(s, nvidia_args.val, tags.val[n])])

\* self.default_profiles: the static tuples; each option dict is the heap
\* object the tuple refers to.
static_profiles(s) ==
    [j \in 1..Len(default_profiles) |->
        [display |-> default_profiles[j].display,
         key |-> default_profiles[j].key,
         type |-> default_profiles[j].type,
         ref |-> StaticId(s, j),
         options |-> heap[StaticId(s, j)]]]

\* The `profiles` property: static entries, then the discovered ones.
profiles(s) ==
    LET d == docker_profiles(s)
    IN  IF d.err # "ok" THEN d ELSE Ok(static_profiles(s) \o d.val)

\* images(group)
images(group) ==
    IF group # ""
    THEN (IF group \in DOMAIN group_images THEN group_images[group] ELSE <<>>)
    ELSE default_profile_image

(***************************************************************************)
(* Selection / delegation controller: the pure parts.                      *)
(***************************************************************************)
\* The inherited child_class before any profile was selected.
InitialChildClass == "WrapSpawner.child_class"

\* What super().get_state() returns: the wrapper's own, generic entries.
BaseState == [k \in {"child_state"} |-> <<"generic">>]

\* Variant: no match falls back to the first profile.
MatchIndexOrFirst(reg, profile) ==
    IF \E n \in 1..Len(reg) : reg[n].key = profile
    THEN CHOOSE n \in 1..Len(reg) :
            reg[n].key = profile /\ \A m \in 1..(n - 1) : reg[m].key # profile
    ELSE IF reg # <<>> THEN 1 ELSE 0

\* Variant: the loop does not break, so the last match wins.
MatchIndexLast(reg, profile) ==
    IF \E n \in 1..Len(reg) : reg[n].key = profile
    THEN CHOOSE n \in 1..Len(reg) :
            reg[n].key = profile /\ \A m \in (n + 1)..Len(reg) : reg[m].key # profile
    ELSE 0

\* The loop of select_profile: the first profile whose key is `profile`
\* (the loop breaks there), 0 when the loop ends without a match.
MatchIndex(reg, profile) ==
    IF \E n \in 1..Len(reg) : reg[n].key = profile
    THEN CHOOSE n \in 1..Len(reg) :
            reg[n].key = profile /\ \A m \in 1..(n - 1) : reg[m].key # profile
    ELSE 0

\* Variant: the image is not written.
InjectNothing(config, image) == config

\* self.child_config["image"] = image
InjectImage(config, image) == DictSet(config, "image", image)

\* Variant: the handler resets only the field whose key is missing.
load_fields_partial(state) ==
    <<DictGet(state, "profile", <<>>), DictGet(state, "dockerImage", <<>>)>>

\* The try / except KeyError of load_child_class: <<child_profile, profile_image>>.
load_fields(state) ==
    IF "profile" \notin DOMAIN state THEN <<(<<>>), (<<>>)>>
    ELSE IF "dockerImage" \notin DOMAIN state THEN <<(<<>>), (<<>>)>>
    ELSE <<state["profile"], state["dockerImage"]>>

\* Variant: the two fields are written under each other's key.
get_state_swapped(s) ==
    DictSet(DictSet(BaseState, "profile", profile_image[s]), "dockerImage", child_profile[s])

\* get_state
get_state(s) ==
    DictSet(DictSet(BaseState, "profile", child_profile[s]), "dockerImage", profile_image[s])

\* self.images is the bound method `images`, and a method has no items.
Subscript(obj, n) ==
    IF obj.kind = "method" THEN Raise("TypeError")
    ELSE IF n \notin DOMAIN obj.items THEN Raise("IndexError")
    ELSE Ok(obj.items[n])

\* options_from_form: both defaults are evaluated before each get().
options_from_form(s, formdata) ==
    LET reg == profiles(s)
        firstProfile == IF reg.err # "ok" THEN reg ELSE Subscript([kind |-> "list", items |-> reg.val], 1)
        firstImage == Subscript([kind |-> "method", items |-> <<>>], 1)
    IN  IF firstProfile.err # "ok" THEN firstProfile
        ELSE IF firstImage.err # "ok" THEN firstImage
        ELSE Ok([k \in {"profile", "dockerImage"} |->
                    IF k = "profile"
                    THEN DictGet(formdata, "profile", <<firstProfile.val.key>>)[1]
                    ELSE DictGet(formdata, "dockerImage", <<firstImage.val.key>>)[1]])

(***************************************************************************)
(* Form renderer.  An <option> element is the record of the three fields   *)
(* the template substitutes.                                               *)
(***************************************************************************)
MarkFirst(records) ==
    [n \in 1..Len(records) |->
        [value |-> records[n].key,
         first |-> IF n = 1 THEN first_template ELSE <<>>,
         display |-> records[n].display]]

\* options_form
options_form(s) ==
    LET reg == profiles(s)
        temp_images == Flatten([n \in 1..Len(groups[s]) |-> images(groups[s][n])])
    IN  IF reg.err # "ok" THEN reg
        ELSE IF reg.val = <<>> THEN Raise("IndexError")
        ELSE Ok([input_template |-> MarkFirst(reg.val),
                 input_image_template |-> MarkFirst(temp_images)])

(***************************************************************************)
(* The operations.                                                         *)
(***************************************************************************)
\* arg: for load_child_class the keys of the state mapping and whether it is
\* the mapping get_state persisted; for options_from_form the form data.
NoArg == [keys |-> {}, persisted |-> FALSE]

Call(op, s, result, arg) == [op |-> op, sess |-> s, result |-> result, arg |-> arg]

\* select_profile: a raising read of `profiles` leaves everything as it was;
\* a match installs the profile's type and its option dict ITSELF (no copy),
\* then writes the image into that dict.  The dict the session held alone
\* is unreachable once child_config refers to another one.
select_profile(s, profile, image) ==
    LET reg == profiles(s)
        n == IF reg.err = "ok" THEN MatchIndex(reg.val, profile) ELSE 0
    IN  IF n = 0
        THEN UNCHANGED <<heap, child_class, child_config>>
        ELSE LET p == reg.val[n]
                 target == IF p.ref = <<"new", 0>> THEN OwnId(s) ELSE p.ref
             IN  /\ child_class' = [child_class EXCEPT ![s] = p.type]
                 /\ child_config' = [child_config EXCEPT ![s] = target]
                 /\ heap' = [heap EXCEPT ![OwnId(s)] = EmptyDict,
                                         ![target] = InjectImage(p.options, image)]

\* super().construct_child(): the wrapper builds the child backend.
WrapSpawner_construct_child(s) == delegated' = [delegated EXCEPT ![s] = TRUE]

\* super().clear_state()
WrapSpawner_clear_state(s) == delegated' = [delegated EXCEPT ![s] = FALSE]

ConstructChild(s) ==
    \E user_options \in Selections :
        LET profile == DictGet(user_options, "profile", <<>>)
            image == DictGet(user_options, "dockerImage", <<>>)
        IN  /\ child_profile' = [child_profile EXCEPT ![s] = profile]
            /\ profile_image' = [profile_image EXCEPT ![s] = image]
            /\ select_profile(s, profile, image)
            /\ IF profiles(s).err = "ok"
               THEN WrapSpawner_construct_child(s)
               ELSE UNCHANGED delegated
            /\ last' = Call("construct_child", s, profiles(s).err, NoArg)
            /\ UNCHANGED <<dockerInstalled, shared, default_profiles, imageTags,
                           sidecar, groups, saved, form>>

LoadChildClass(s) ==
    \E state \in Selections \cup {saved[s]} :
        LET fields == load_fields(state)
        IN  /\ child_profile' = [child_profile EXCEPT ![s] = fields[1]]
            /\ profile_image' = [profile_image EXCEPT ![s] = fields[2]]
            /\ select_profile(s, fields[1], fields[2])
            /\ last' = Call("load_child_class", s, profiles(s).err,
                         [keys |-> DOMAIN state, persisted |-> state = saved[s]])
            /\ UNCHANGED <<dockerInstalled, shared, default_profiles, imageTags,
                           sidecar, groups, delegated, saved, form>>

GetState(s) ==
    /\ saved' = [saved EXCEPT ![s] = get_state(s)]
    /\ last' = Call("get_state", s, "ok", NoArg)
    /\ UNCHANGED <<dockerInstalled, shared, default_profiles, imageTags, sidecar,
                   groups, heap, child_class, child_config, child_profile,
                   profile_image, delegated, form>>

ClearState(s) ==
    /\ WrapSpawner_clear_state(s)
    /\ child_profile' = [child_profile EXCEPT ![s] = <<>>]
    /\ profile_image' = [profile_image EXCEPT ![s] = <<>>]
    /\ last' = Call("clear_state", s, "ok", NoArg)
    /\ UNCHANGED <<dockerInstalled, shared, default_profiles, imageTags, sidecar,
                   groups, heap, child_class, child_config, saved, form>>

OptionsFromForm(s) ==
    \E formdata \in FormData :
        /\ form' = options_from_form(s, formdata).val
        /\ last' = Call("options_from_form", s, options_from_form(s, formdata).err, formdata)
        /\ UNCHANGED <<dockerInstalled, shared, default_profiles, imageTags, sidecar,
                       groups, heap, child_class, child_config, child_profile,
                       profile_image, delegated, saved>>

OptionsForm(s) ==
    /\ form' = options_form(s).val
    /\ last' = Call("options_form", s, options_form(s).err, NoArg)
    /\ UNCHANGED <<dockerInstalled, shared, default_profiles, imageTags, sidecar,
                   groups, heap, child_class, child_config, child_profile,
                   profile_image, delegated, saved>>

\* The orchestrator builds the session's spawner object anew (a restart):
\* the traits are back at their defaults.  An instance configured with its
\* own default_profiles gets its own copy of the option dicts.
NewInstance(s) ==
    /\ child_profile' = [child_profile EXCEPT ![s] = <<>>]
    /\ profile_image' = [profile_image EXCEPT ![s] = <<>>]
    /\ child_class' = [child_class EXCEPT ![s] = InitialChildClass]
    /\ child_config' = [child_config EXCEPT ![s] = OwnId(s)]
    /\ delegated' = [delegated EXCEPT ![s] = FALSE]
    /\ heap' = [o \in ObjIds |->
                  IF o = OwnId(s) THEN EmptyDict
                  ELSE IF ~shared /\ o[1] = s /\ o[2] \in 1..Len(default_profiles)
                  THEN default_profiles[o[2]].options
                  ELSE heap[o]]
    /\ last' = Call("new", s, "ok", NoArg)
    /\ UNCHANGED <<dockerInstalled, shared, default_profiles, imageTags, sidecar,
                   groups, saved, form>>

(***************************************************************************)
(* Specifications.                                                         *)
(***************************************************************************)
InitHeap(config) ==
    [o \in ObjIds |->
        IF o[2] \in 1..Len(config) THEN config[o[2]].options ELSE EmptyDict]

InitSessionFields ==
    /\ child_class = [s \in Sessions |-> InitialChildClass]
    /\ child_config = [s \in Sessions |-> OwnId(s)]
    /\ child_profile = [s \in Sessions |-> <<>>]
    /\ profile_image = [s \in Sessions |-> <<>>]
    /\ delegated = [s \in Sessions |-> FALSE]
    /\ saved = [s \in Sessions |-> BaseState]
    /\ form = <<>>
    /\ last = Call("init", "A", "ok", NoArg)

\* The dicts of the class's default_value are the objects every instance
\* refers to; a list set through configuration is copied for each instance.
\* A configuration may also set the list the class declares.
Sharing(config) == IF config = ClassDefault THEN BOOLEAN ELSE {FALSE}

\* One session, under every configuration and environment.
Init ==
    /\ dockerInstalled \in BOOLEAN
    /\ default_profiles \in Configs
    /\ shared \in Sharing(default_profiles)
    /\ imageTags \in SeqsUpTo(Tags, MaxTags)
    /\ sidecar \in SidecarStates
    /\ groups = [s \in Sessions |-> <<>>]
    /\ heap = InitHeap(default_profiles)
    /\ InitSessionFields

Next ==
    \/ ConstructChild("A")
    \/ LoadChildClass("A")
    \/ GetState("A")
    \/ ClearState("A")
    \/ NewInstance("A")

Spec == Init /\ [][Next]_vars

\* Two sessions over the class's default registry.
InitSessions ==
    /\ dockerInstalled = TRUE
    /\ default_profiles = ClassDefault
    /\ shared \in Sharing(default_profiles)
    /\ imageTags = <<>>
    /\ sidecar = "refused"
    /\ groups = [s \in Sessions |-> <<>>]
    /\ heap = InitHeap(default_profiles)
    /\ InitSessionFields

NextSessions ==
    \E s \in Sessions :
        \/ ConstructChild(s)
        \/ LoadChildClass(s)
        \/ ClearState(s)

SpecSessions == InitSessions /\ [][NextSessions]_vars

\* The form renderer over every registry and every list of groups.
InitForm ==
    /\ dockerInstalled \in BOOLEAN
    /\ shared = FALSE
    /\ default_profiles \in Configs
    /\ imageTags \in SeqsUpTo(Tags, MaxTags)
    /\ sidecar \in SidecarStates
    /\ groups \in [Sessions -> SeqsUpTo(GroupNames, MaxGroups)]
    /\ groups["B"] = <<>>
    /\ heap = InitHeap(default_profiles)
    /\ InitSessionFields

NextForm == OptionsForm("A") \/ OptionsFromForm("A")

SpecForm == InitForm /\ [][NextForm]_vars

(***************************************************************************)
(* Properties.                                                             *)
(***************************************************************************)
Resolves == {"construct_child", "load_child_class"}

BothKeys == {"profile", "dockerImage"}

\* The registry a call of session s reads, when the read returns.
Built(s) == profiles(s).err = "ok"

Registry(s) == profiles(s).val

Matches(s, key) == {n \in 1..Len(Registry(s)) : Registry(s)[n].key = key}

FirstOf(S) == CHOOSE n \in S : \A m \in S : n <= m

LastOf(S) == CHOOSE n \in S : \A m \in S : m <= n

Config(s) == heap[child_config[s]]

GpuKeys == {"read_only_volumes", "extra_create_kwargs", "extra_host_config"}

\* C1: restoring the mapping get_state returns reproduces the pair
\* {child_profile, profile_image} of the session that persisted it: the
\* mapping persisted by every get_state step decodes, by the reading of
\* load_child_class, to the pair the session holds, and a load_child_class
\* step given the mapping just persisted leaves that pair in place.
C1_RoundTrip ==
    [][\A s \in Sessions :
          /\ (last'.op = "get_state" /\ last'.sess = s)
                => load_fields(saved'[s]) = <<child_profile[s], profile_image[s]>>
          /\ (last'.op = "load_child_class" /\ last'.sess = s /\ last'.arg.persisted
              /\ saved[s] = get_state(s))
                => /\ child_profile'[s] = child_profile[s]
                   /\ profile_image'[s] = profile_image[s]]_vars

\* A session whose construct_child resolved a registry key with an image
\* persisted its state and was restored from it.
C1_Witness ==
    /\ last.op = "load_child_class" /\ last.sess = "A" /\ last.arg.persisted
    /\ last.result = "ok"
    /\ delegated["A"]
    /\ Matches("A", child_profile["A"]) # {}
    /\ profile_image["A"] = <<"img1">>
    /\ saved["A"] = get_state("A")

\* C2: options_from_form never fails on missing input: over a registry
\* that has a first profile, for every form data it returns the first
\* submitted value of each field, or else the key of the first registry
\* profile and the reference of the first image.
C2_SubmitNeverFails ==
    (/\ last.op = "options_from_form"
     /\ Built(last.sess)
     /\ Registry(last.sess) # <<>>) =>
        /\ last.result = "ok"
        /\ form["profile"] =
              IF "profile" \in DOMAIN last.arg THEN last.arg["profile"][1]
              ELSE Registry(last.sess)[1].key
        /\ form["dockerImage"] =
              IF "dockerImage" \in DOMAIN last.arg THEN last.arg["dockerImage"][1]
              ELSE default_profile_image[1].key

\* C3: a resolve whose key equals no registry key leaves child_class and
\* child_config (the reference and every dict) as they were and raises
\* nothing, in every such call.
C3_UnmatchedNoOp ==
    [][\A s \in Sessions :
          (/\ last'.op \in Resolves /\ last'.sess = s
           /\ Built(s)
           /\ \A n \in 1..Len(Registry(s)) : Registry(s)[n].key # child_profile'[s])
          => /\ child_class'[s] = child_class[s]
             /\ child_config'[s] = child_config[s]
             /\ heap' = heap
             /\ last'.result = "ok"]_vars

\* An unmatched resolve that follows a successful one: the installed
\* backend is still the earlier one.
C3_Witness ==
    /\ last.op = "construct_child" /\ last.sess = "A" /\ last.result = "ok"
    /\ child_profile["A"] = <<"bogus">>
    /\ Matches("A", <<"bogus">>) = {}
    /\ child_class["A"] = SystemUserSpawner
    /\ "image" \in DOMAIN Config("A")

\* C4: a matching resolve installs the profile's type and a copy of its
\* options with `image` set, and leaves the registry profile's own option
\* mapping as it was before the call.
C4_CopyThenMutate ==
    [][\A s \in Sessions :
          (/\ last'.op \in Resolves /\ last'.sess = s
           /\ Built(s)
           /\ Matches(s, child_profile'[s]) # {})
          => LET p == Registry(s)[FirstOf(Matches(s, child_profile'[s]))]
             IN  /\ child_class'[s] = p.type
                 /\ heap'[child_config'[s]] = DictSet(p.options, "image", profile_image'[s])
                 /\ \A j \in 1..Len(default_profiles) :
                       heap'[StaticId(s, j)] = heap[StaticId(s, j)]]_vars

\* C5: a step of one session changes no other session's child_profile,
\* profile_image, child_class or child_config.
C5_NoCrossSession ==
    [][\A a \in Sessions :
          last'.sess # a
          => /\ child_profile'[a] = child_profile[a]
             /\ profile_image'[a] = profile_image[a]
             /\ child_class'[a] = child_class[a]
             /\ child_config'[a] = child_config[a]
             /\ heap'[child_config[a]] = heap[child_config[a]]]_vars

\* C6 as stated: load_child_class given a mapping that lacks `profile` or
\* `dockerImage` ends with both fields "" and never raises.
C6_RestoreNeverRaises ==
    (last.op = "load_child_class" /\ ~(BothKeys \subseteq last.arg.keys))
    => /\ child_profile[last.sess] = <<>>
       /\ profile_image[last.sess] = <<>>
       /\ last.result = "ok"

\* C6 amended: the two fields are reset together in every such call, and no
\* KeyError leaves it; the call raises exactly when reading the registry
\* raises: the docker package is missing (Exception), or a tag is kept and
\* the sidecar's failure is not a URLError.
C6_RestoreResets ==
    (last.op = "load_child_class" /\ ~(BothKeys \subseteq last.arg.keys))
    => /\ child_profile[last.sess] = <<>>
       /\ profile_image[last.sess] = <<>>
       /\ last.result =
             IF ~dockerInstalled THEN "Exception"
             ELSE IF sidecar = "reset" /\ \E n \in 1..Len(imageTags) : TagMatches(imageTags[n])
             THEN "ConnectionResetError"
             ELSE "ok"

\* A mapping with `profile` but without `dockerImage` was restored.
C6_Witness ==
    /\ last.op = "load_child_class" /\ last.arg.keys = {"profile"}
    /\ last.result = "ok"
    /\ child_profile["A"] = <<>> /\ profile_image["A"] = <<>>

\* C7: for a registry of N profiles and M group images, options_form gives
\* N profile options in registry order and M image options in group order,
\* the marker on the first option of each non-empty list and on no other.
C7_FormCounts ==
    (last.op = "options_form" /\ Built(last.sess))
    => LET reg == Registry(last.sess)
           imgs == Flatten([n \in 1..Len(groups[last.sess]) |-> images(groups[last.sess][n])])
           Marked(opts) == {n \in 1..Len(opts) : opts[n].first = first_template}
       IN  /\ last.result = "ok"
           /\ Len(form.input_template) = Len(reg)
           /\ \A n \in 1..Len(reg) : form.input_template[n].value = reg[n].key
           /\ Len(form.input_image_template) = Len(imgs)
           /\ \A n \in 1..Len(imgs) : form.input_image_template[n].value = imgs[n].key
           /\ Marked(form.input_template) = (IF reg = <<>> THEN {} ELSE {1})
           /\ Marked(form.input_image_template) = (IF imgs = <<>> THEN {} ELSE {1})

\* C8: when the GET to the sidecar fails, discovery completes without GPU
\* keys and the failure reaches no resolve as an error.
C8_ProbeFailureSilent ==
    (last.op \in Resolves /\ dockerInstalled /\ sidecar # "up")
    => /\ last.result = "ok"
       /\ \A n \in 1..Len(Registry(last.sess)) :
             Registry(last.sess)[n].ref = <<"new", 0>>
                => DOMAIN Registry(last.sess)[n].options \cap GpuKeys = {}

\* C9 as stated: static profiles come first, and a resolve with a key that
\* several entries carry installs the last of them.
C9_LaterShadows ==
    \A s \in Sessions :
        (last.op \in Resolves /\ last.sess = s /\ last.result = "ok"
         /\ Cardinality(Matches(s, child_profile[s])) > 1)
        => child_class[s] = Registry(s)[LastOf(Matches(s, child_profile[s]))].type

\* C9 amended: static profiles come first and the discovered ones after
\* them, and a resolve with a key that several entries carry installs the
\* first of them: earlier entries shadow later ones.
C9_EarlierShadows ==
    \A s \in Sessions :
        (last.op \in Resolves /\ last.sess = s /\ last.result = "ok")
        => /\ \A n \in 1..Len(default_profiles) :
                 /\ Registry(s)[n].key = default_profiles[n].key
                 /\ Registry(s)[n].ref # <<"new", 0>>
           /\ \A n \in (Len(default_profiles) + 1)..Len(Registry(s)) :
                 Registry(s)[n].ref = <<"new", 0>>
           /\ Cardinality(Matches(s, child_profile[s])) > 1
                 => child_class[s] = Registry(s)[FirstOf(Matches(s, child_profile[s]))].type

\* A resolve with the key a static and a discovered profile share.
C9_Witness ==
    /\ last.op = "construct_child" /\ last.result = "ok"
    /\ Cardinality(Matches("A", child_profile["A"])) > 1
    /\ Registry("A")[LastOf(Matches("A", child_profile["A"]))].type = SystemUserSpawner
    /\ child_class["A"] = LocalProcessSpawner

\* C10 as stated: whenever child_profile is not "", child_class is the type
\* of the registry profile with that key and child_config["image"] is
\* profile_image.
C10_PersistedAgreesAlways ==
    \A s \in Sessions :
        (child_profile[s] # <<>> /\ Built(s))
        => /\ \E n \in Matches(s, child_profile[s]) : child_class[s] = Registry(s)[n].type
           /\ "image" \in DOMAIN Config(s)
           /\ Config(s)["image"] = profile_image[s]

\* C10 amended: right after a construct_child or load_child_class call that
\* returned and whose child_profile is a registry key, child_class is the
\* type of the first profile with that key and child_config["image"] is
\* profile_image.
C10_PersistedAgreesAfterMatch ==
    \A s \in Sessions :
        (last.op \in Resolves /\ last.sess = s /\ last.result = "ok"
         /\ Matches(s, child_profile[s]) # {})
        => /\ child_class[s] = Registry(s)[FirstOf(Matches(s, child_profile[s]))].type
           /\ "image" \in DOMAIN Config(s)
           /\ Config(s)["image"] = profile_image[s]

\* A discovered profile was resolved with an image.
C10_Witness ==
    /\ last.op = "construct_child" /\ last.result = "ok"
    /\ child_profile["A"] = <<"docker-">> \o TagJH
    /\ child_class["A"] = SystemUserSpawner
    /\ profile_image["A"] = <<"img1">>
    /\ Config("A")["image"] = <<"img1">>

====
